---- MODULE Spec2Model ----
(***************************************************************************)
(* A model of the rules engine and of the game loop of src/main.py (the    *)
(* game of Go): get_neighbours, get_group_and_liberties, remove_group,     *)
(* calculate_score, valid_move, computer_move and game.                    *)
(*                                                                         *)
(* A cell is a pair <<col, row>>.  The board `stones` is a function from   *)
(* the occupied cells to the owner (1 = black, 2 = white), as the dict of  *)
(* the program.  Scores are kept in tenths of a point, so that the komi    *)
(* 7.5 is the integer 75.                                                  *)
(*                                                                         *)
(* The program offers boards of 9, 13 and 19 lines.  The game loop is      *)
(* explored on the board sizes of GameSizes and LateSizes, which are       *)
(* scaled down; the 9-line board is used by the scoring scenarios.         *)
(***************************************************************************)
EXTENDS Integers, Sequences, FiniteSets, TLC

\* ------------------------------------------------------------------ bounds
\* Board sizes on which whole games are explored.
GameSizes == {2, 3}
\* Board sizes on which the events behind the end of a game are explored.
LateSizes == {2}
\* Most stones accepted in one game, of black and of white.
MaxBlack == 3
MaxWhite == 2
\* The consecutive-pass counter is not advanced beyond this value.
MaxPass == 2
\* Most events handled in one batch once an event of it has ended the game.
MaxBatch == 2
\* Most stones placed in the end-to-end scenarios.
ScenarioMoves == 1
\* Largest capture tally the scorer is given.
MaxTally == 1

\* ------------------------------------------------------- program constants
BLACK == 1
WHITE == 2
\* The komi 7.5 in tenths of a point.
KomiTenths == 75
\* Failed computer_move calls after which the computer passes.
ComputerTriesLimit == 10
\* The pass count at which the P key ends the game.
PassLimit == 2
\* The board of the end-to-end scenarios.
ScenarioLines == 9

None == <<>>

\* --------------------------------------------------------------- utilities
Range(s) == {s[i] : i \in 1..Len(s)}

Cells(n) == (0..(n - 1)) \X (0..(n - 1))

\* The board `st` with a stone of `player` written at `cell`.
Put(st, cell, player) ==
    [c \in (DOMAIN st) \cup {cell} |-> IF c = cell THEN player ELSE st[c]]

\* The board `st` with the cells of `group` deleted.
Del(st, group) == [c \in (DOMAIN st) \ group |-> st[c]]

EmptyBoard == [c \in {} |-> BLACK]

\* ------------------------------------------------------------ get_neighbours
Dirs == << <<-1, 0>>, <<1, 0>>, <<0, -1>>, <<0, 1>> >>

InBounds(c, n) == 0 <= c[1] /\ c[1] < n /\ 0 <= c[2] /\ c[2] < n

\* The body of get_neighbours.
Neighbours(c, n) ==
    SelectSeq([i \in 1..4 |-> <<c[1] + Dirs[i][1], c[2] + Dirs[i][2]>>],
              LAMBDA p : InBounds(p, n))

\* Neighbours, tabulated once for the boards of the model.
NeighbourTable ==
    [n \in GameSizes \cup LateSizes \cup {ScenarioLines} |->
        [c \in Cells(n) |-> Neighbours(c, n)]]

get_neighbours(c, n) == NeighbourTable[n][c]

\* --------------------------------------------------- get_group_and_liberties
\* The queue from its first cell outside `seen` on: the iterations that pop
\* a cell already seen only `continue`.
Fresh(queue, seen) ==
    LET I == {i \in 1..Len(queue) : queue[i] \notin seen} IN
    IF I = {} THEN <<>>
    ELSE SubSeq(queue, CHOOSE i \in I : \A j \in I : i <= j, Len(queue))

\* The visit queueing the neighbouring stones of either colour.
GroupVisitAnyColour(v, s, nbrs, player, st) ==
    [queue |-> Fresh(Tail(v.queue) \o SelectSeq(nbrs, LAMBDA x :
                         x \notin v.group \cup {s} /\ x \in DOMAIN st),
                     v.group \cup {s}),
     group |-> v.group \cup {s},
     liberties |-> v.liberties \cup {x \in Range(nbrs) :
                         x \notin v.group \cup {s} /\ x \notin DOMAIN st}]

\* Lines 290-297 for the popped cell s, which is not in the group, on the
\* loop state v = (queue, group, liberties); nbrs are the neighbours of s.
GroupVisit(v, s, nbrs, player, st) ==
    [queue |-> Fresh(Tail(v.queue) \o SelectSeq(nbrs, LAMBDA x :
                         /\ x \notin v.group \cup {s}
                         /\ x \in DOMAIN st
                         /\ st[x] = player),
                     v.group \cup {s}),
     group |-> v.group \cup {s},
     liberties |-> v.liberties \cup {x \in Range(nbrs) :
                         x \notin v.group \cup {s} /\ x \notin DOMAIN st}]

\* The while loop: one call is the iteration that adds the head of the queue
\* to the group, with the iterations behind it that only `continue`.
RECURSIVE GroupLoop(_, _, _, _)
GroupLoop(v, player, st, n) ==
    IF v.queue = <<>> THEN v
    ELSE GroupLoop(GroupVisit(v, Head(v.queue),
                              get_neighbours(Head(v.queue), n), player, st),
                   player, st, n)

get_group_and_liberties(c, player, st, n) ==
    GroupLoop([queue |-> <<c>>, group |-> {}, liberties |-> {}], player, st, n)

\* -------------------------------------------------------------- remove_group
\* remove_group adding each removed stone to the tally of the other colour.
RemoveGroupSwapped(group, st, cb, cw) ==
    [stones |-> Del(st, group),
     captured_black |-> cb + Cardinality({p \in group : st[p] = WHITE}),
     captured_white |-> cw + Cardinality({p \in group : st[p] = BLACK})]

\* remove_group adding one to the tally per group instead of one per stone.
RemoveGroupCountsOne(group, st, cb, cw) ==
    [stones |-> Del(st, group),
     captured_black |-> cb + (IF \E p \in group : st[p] = BLACK THEN 1 ELSE 0),
     captured_white |-> cw + (IF \E p \in group : st[p] = WHITE THEN 1 ELSE 0)]

remove_group(group, st, cb, cw) ==
    [stones |-> Del(st, group),
     captured_black |-> cb + Cardinality({p \in group : st[p] = BLACK}),
     captured_white |-> cw + Cardinality({p \in group : st[p] = WHITE})]

\* ----------------------------------------------------------- calculate_score
\* Lines 358-365 for the popped cell s, which is not visited, on the loop
\* state v = (queue, visited, regions, neighbours); `visited` is the set
\* shared with the scan of calculate_score.
RegionVisit(v, s, nbrs, st) ==
    [queue |-> Fresh(Tail(v.queue) \o SelectSeq(nbrs, LAMBDA x :
                         x \notin DOMAIN st /\ x \notin v.visited \cup {s}),
                     v.visited \cup {s}),
     visited |-> v.visited \cup {s},
     regions |-> v.regions \cup {s},
     neighbours |-> v.neighbours
                        \cup {st[x] : x \in Range(nbrs) \cap DOMAIN st}]

\* The while loop of find_region: one call is the iteration that visits the
\* head of the queue, with the iterations behind it that only `continue`.
RECURSIVE RegionLoop(_, _, _)
RegionLoop(v, st, n) ==
    IF v.queue = <<>> THEN v
    ELSE RegionLoop(RegionVisit(v, Head(v.queue),
                                get_neighbours(Head(v.queue), n), st),
                    st, n)

find_region(c, visited, st, n) ==
    RegionLoop([queue |-> <<c>>, visited |-> visited, regions |-> {},
                neighbours |-> {}], st, n)

\* The region credited to Black as soon as a black stone borders it.
CreditAnyBorder(t, r) ==
    [t EXCEPT !.visited = r.visited,
              !.territory_black = IF BLACK \in r.neighbours
                                  THEN @ + Cardinality(r.regions) ELSE @,
              !.territory_white = IF r.neighbours = {WHITE}
                                  THEN @ + Cardinality(r.regions) ELSE @,
              !.found = @ \cup {[regions |-> r.regions,
                                 neighbours |-> r.neighbours]}]

\* Lines 378-383 for the region r that find_region returned, on the scan
\* state t = (idx, visited, territory_black, territory_white); `found`
\* collects what find_region returned at each call, for the properties.
Credit(t, r) ==
    [t EXCEPT !.visited = r.visited,
              !.territory_black = IF Cardinality(r.neighbours) = 1
                                     /\ r.neighbours = {BLACK}
                                  THEN @ + Cardinality(r.regions) ELSE @,
              !.territory_white = IF Cardinality(r.neighbours) = 1
                                     /\ r.neighbours = {WHITE}
                                  THEN @ + Cardinality(r.regions) ELSE @,
              !.found = @ \cup {[regions |-> r.regions,
                                 neighbours |-> r.neighbours]}]

\* Lines 371-383: the body of the double loop at the cell c.
ScanCell(t, c, st, n) ==
    IF c \in t.visited \/ c \in DOMAIN st THEN t
    ELSE Credit(t, find_region(c, t.visited, st, n))

\* The double loop over col and row, at the cell of index idx = col * n + row.
RECURSIVE ScoreScan(_, _, _)
ScoreScan(t, st, n) ==
    IF t.idx = n * n THEN t
    ELSE ScoreScan([ScanCell(t, <<t.idx \div n, t.idx % n>>, st, n)
                       EXCEPT !.idx = @ + 1],
                   st, n)

Territory(st, n) ==
    ScoreScan([idx |-> 0, visited |-> {}, territory_black |-> 0,
               territory_white |-> 0, found |-> {}], st, n)

\* The scores with no territory credited (captures and komi only).
ScoresNoTerritory(t, cb, cw) == <<10 * cw, 10 * cb + KomiTenths>>

\* The scores crediting each colour with its own captured stones.
ScoresOwnCaptures(t, cb, cw) ==
    <<10 * (t.territory_black + cb), 10 * (t.territory_white + cw) + KomiTenths>>

\* Lines 385-388, in tenths of a point, from the territories t.
Scores(t, cb, cw) ==
    <<10 * (t.territory_black + cw), 10 * (t.territory_white + cb) + KomiTenths>>

calculate_score(st, n, cb, cw) == Scores(Territory(st, n), cb, cw)

\* ---------------------------------------------------------------- valid_move
\* Lines 409-410 for the group g of the neighbour, on the loop state
\* v = (stones, captured_black, captured_white).
RemoveIfDead(g, v) ==
    IF g.liberties = {}
    THEN remove_group(g.group, v.stones, v.captured_black, v.captured_white)
    ELSE v

\* The loop body without the test of the neighbour's colour.
CaptureAtAnyColour(nb, v, player, n) ==
    IF nb \in DOMAIN v.stones
    THEN RemoveIfDead(
             get_group_and_liberties(nb, v.stones[nb], v.stones, n), v)
    ELSE v

\* Lines 407-410: the body of the for loop at the neighbour nb.
CaptureAt(nb, v, player, n) ==
    IF nb \in DOMAIN v.stones /\ v.stones[nb] # player
    THEN RemoveIfDead(
             get_group_and_liberties(nb, v.stones[nb], v.stones, n), v)
    ELSE v

\* The loop ending at the first neighbour whose group it removes.
RECURSIVE CaptureFirstOnly(_, _, _, _, _)
CaptureFirstOnly(nbrs, i, v, player, n) ==
    IF i > Len(nbrs) THEN v
    ELSE IF CaptureAt(nbrs[i], v, player, n) # v
         THEN CaptureAt(nbrs[i], v, player, n)
         ELSE CaptureFirstOnly(nbrs, i + 1, v, player, n)

\* The loop over the neighbours of the placed cell, from index i on.
RECURSIVE CaptureLoop(_, _, _, _, _)
CaptureLoop(nbrs, i, v, player, n) ==
    IF i > Len(nbrs) THEN v
    ELSE CaptureLoop(nbrs, i + 1, CaptureAt(nbrs[i], v, player, n),
                     player, n)

\* What valid_move returns: the group g of the placed stone and the board
\* and tallies r the capture loop left.
Returned(g, r) ==
    [group |-> g.group, liberties |-> g.liberties, stones |-> r.stones,
     captured_black |-> r.captured_black,
     captured_white |-> r.captured_white]

\* Line 412, after the capture loop has left r.
PlacedGroup(c, r, player, n) ==
    Returned(get_group_and_liberties(c, player, r.stones, n), r)

\* valid_move taking the liberties of the placed stone before the captures.
ValidMoveOwnFirst(c, st, n, player, cb, cw) ==
    Returned(get_group_and_liberties(c, player, st, n),
             CaptureLoop(get_neighbours(c, n), 1,
                         [stones |-> st, captured_black |-> cb,
                          captured_white |-> cw], player, n))

\* `st` already holds the provisionally placed stone.
valid_move(c, st, n, player, cb, cw) ==
    PlacedGroup(c, CaptureLoop(get_neighbours(c, n), 1,
                               [stones |-> st, captured_black |-> cb,
                                captured_white |-> cw], player, n),
                player, n)

\* ------------------------------------------------------------- computer_move
\* The loop sampling a cell without a liberty once more before dropping it.
RECURSIVE SampleLoopRetries(_, _, _, _)
SampleLoopRetries(empty, iters, st, n) ==
    IF empty = {} THEN {<<None, iters>>}
    ELSE UNION { IF get_group_and_liberties(m, WHITE, st, n).liberties # {}
                 THEN {<<m, iters + 1>>}
                 ELSE SampleLoopRetries(empty \ {m}, iters + 2, st, n)
                 : m \in empty }

\* The loop returning the first cell it samples.
SampleLoopFirst(empty, iters, st, n) ==
    IF empty = {} THEN {<<None, iters>>}
    ELSE {<<m, iters + 1>> : m \in empty}

\* The sampling loop.  random.choice is a free choice in `empty`; the result
\* is the set of pairs <<move or None, iterations run>> the loop can return.
RECURSIVE SampleLoop(_, _, _, _)
SampleLoop(empty, iters, st, n) ==
    IF empty = {} THEN {<<None, iters>>}
    ELSE UNION { IF get_group_and_liberties(m, WHITE, st, n).liberties # {}
                 THEN {<<m, iters + 1>>}
                 ELSE SampleLoop(empty \ {m}, iters + 1, st, n)
                 : m \in empty }

\* computer_move keeping the cells that are legal once the captures are applied.
ComputerMoveLegal(st, n) ==
    LET legal == {m \in Cells(n) \ DOMAIN st :
                     valid_move(m, Put(st, m, WHITE), n, WHITE, 0, 0).liberties
                         # {}}
    IN IF legal = {} THEN {None} ELSE legal

computer_move(st, n) ==
    {r[1] : r \in SampleLoop(Cells(n) \ DOMAIN st, 0, st, n)}

\* ------------------------------------------------------ reference notions
\* Stated from the rules of Go, independently of the traversals above; the
\* properties compare the program with them.
Adjacent(a, b) ==
    \/ a[1] = b[1] /\ (a[2] = b[2] + 1 \/ b[2] = a[2] + 1)
    \/ a[2] = b[2] /\ (a[1] = b[1] + 1 \/ b[1] = a[1] + 1)

RECURSIVE Grow(_, _, _)
Grow(S, colour, st) ==
    LET S2 == S \cup {x \in DOMAIN st :
                        st[x] = colour /\ \E y \in S : Adjacent(x, y)}
    IN IF S2 = S THEN S ELSE Grow(S2, colour, st)

\* The maximal same-colour group of the stone at c.
Component(c, st) == Grow({c}, st[c], st)

\* The empty in-bounds cells next to a cell of G.
LibertiesOf(G, st, n) ==
    {x \in Cells(n) \ DOMAIN st : \E y \in G : Adjacent(x, y)}

Groups(st) == {Component(c, st) : c \in DOMAIN st}

\* The opposing groups next to the stone just placed at c that have no
\* liberty on the board st (which holds the placed stone).
DeadGroups(c, player, st, n) ==
    {G \in {Component(x, st) : x \in {y \in DOMAIN st :
                                      Adjacent(y, c) /\ st[y] # player}} :
        LibertiesOf(G, st, n) = {}}

\* The maximal 4-connected region of empty cells around the empty cell set S.
RECURSIVE GrowEmpty(_, _, _)
GrowEmpty(S, st, n) ==
    LET S2 == S \cup {x \in Cells(n) \ DOMAIN st : \E y \in S : Adjacent(x, y)}
    IN IF S2 = S THEN S ELSE GrowEmpty(S2, st, n)

Regions(st, n) == {GrowEmpty({c}, st, n) : c \in Cells(n) \ DOMAIN st}

\* The colours of the stones next to a cell of the region R.
Border(R, st) ==
    {st[x] : x \in {y \in DOMAIN st : \E z \in R : Adjacent(y, z)}}

\* The number of empty cells in regions bordered by `colour` alone.
TerritoryOf(colour, st, n) ==
    Cardinality(UNION {R \in Regions(st, n) : Border(R, st) = {colour}})

\* ---------------------------------------------------------------------- game
\* One iteration of the while loop of game() handles the batch of events
\* that pygame.event.get() returns and then runs the rest of the frame, which
\* computes the scores.  While the game runs, a batch of several events acts
\* on the game as the same events in batches of one (the frames in between
\* only recompute the scores, which nothing reads before the next frame), so
\* an event that leaves game_running true is followed by its frame in the
\* same step.  An event that ends the game leaves the batch open: the for loop
\* has no break, and the events behind it are still handled (pc = "drain")
\* before the last frame computes the scores that game() returns.  When
\* game() has returned, its locals are gone and the two scores remain.
VARIABLES
    grid_lines,       \* parameter of game()
    players,          \* parameter of game(): 1 or 2
    stones,
    current_player,
    computer_tries,
    pass_count,
    captured_black,
    captured_white,
    game_running,
    black_score,
    white_score,
    pc,               \* "loop", "drain" or "done" (game() has returned)
    batch,            \* events handled so far in the batch of this frame
    moves,            \* history: stones accepted so far, per colour
    last,             \* history: what the last click, pass or computer turn did
    pass_score        \* history: calculate_score at the pass that ended the game

vars == <<grid_lines, players, stones, current_player, computer_tries,
          pass_count, captured_black, captured_white, game_running,
          black_score, white_score, pc, batch, moves, last, pass_score>>

Did(kind) == [kind |-> kind, groups |-> 0, nolib |-> FALSE]

\* The locals of game() before the while loop, lines 456-465.
Locals0 ==
    [stones |-> EmptyBoard,
     current_player |-> BLACK,
     computer_tries |-> 0,
     pass_count |-> 0,
     captured_black |-> 0,
     captured_white |-> 0,
     game_running |-> TRUE,
     moves |-> [p \in {BLACK, WHITE} |-> 0],
     last |-> Did("init"),
     pass_score |-> None]

\* The locals of game() in the current state.
Locals ==
    [stones |-> stones,
     current_player |-> current_player,
     computer_tries |-> computer_tries,
     pass_count |-> pass_count,
     captured_black |-> captured_black,
     captured_white |-> captured_white,
     game_running |-> game_running,
     moves |-> moves,
     last |-> last,
     pass_score |-> pass_score]

Score(g) ==
    calculate_score(g.stones, grid_lines, g.captured_black, g.captured_white)

\* ---- the branches of the event chain, lines 469-521, as functions of the
\* ---- locals g

\* event.type == pygame.QUIT
OnQuit(g) == [g EXCEPT !.game_running = FALSE]

\* The P key counting the pass without handing the turn over.
OnKeyPKeepsTurn(g) ==
    LET ends == g.pass_count + 1 = PassLimit IN
    [g EXCEPT !.pass_count = @ + 1,
              !.game_running = IF ends THEN FALSE ELSE @,
              !.pass_score = IF ends THEN Score(g) ELSE @,
              !.last = Did("pass")]

\* event.type == pygame.KEYDOWN and event.key == pygame.K_p
OnKeyP(g) ==
    LET ends == g.pass_count + 1 = PassLimit IN
    [g EXCEPT !.pass_count = @ + 1,
              !.current_player = 3 - @,
              !.game_running = IF ends THEN FALSE ELSE @,
              !.pass_score = IF ends THEN Score(g) ELSE @,
              !.last = Did("pass")]

\* The outcome of valid_move without the del of lines 493 and 511.
SettledKeepsStone(c, v) ==
    [accepted |-> v.liberties # {},
     stones |-> v.stones,
     captured_black |-> v.captured_black,
     captured_white |-> v.captured_white]

\* The outcome deleting the whole group of the placed stone on a rollback.
SettledDeletesGroup(c, v) ==
    [accepted |-> v.liberties # {},
     stones |-> IF v.liberties # {} THEN v.stones ELSE Del(v.stones, v.group),
     captured_black |-> v.captured_black,
     captured_white |-> v.captured_white]

\* Lines 492-497 and 510-513 on what valid_move returned for the cell c: the
\* stone is deleted again when its group has no liberty.
Settled(c, v) ==
    [accepted |-> v.liberties # {},
     stones |-> IF v.liberties # {} THEN v.stones ELSE Del(v.stones, {c}),
     captured_black |-> v.captured_black,
     captured_white |-> v.captured_white]

\* Lines 489-497 and 504-513: the stone is written, valid_move runs, and the
\* stone is deleted again when its group has no liberty.
Attempt(c, player, st, n, cb, cw) ==
    Settled(c, valid_move(c, Put(st, c, player), n, player, cb, cw))

\* What the history records of an attempt at c: how many opposing groups the
\* placed stone left without a liberty, and whether the group of the placed
\* stone had no liberty at the moment of the placement.
Noted(c, player, st1, n) ==
    [kind |-> "attempt",
     groups |-> Cardinality(DeadGroups(c, player, st1, n)),
     nolib |-> LibertiesOf(Component(c, st1), st1, n) = {}]

\* The locals handing the turn over whether or not the stone stays.
OutcomeAlwaysSwitches(g, a, note, okKind, badKind) ==
    [g EXCEPT !.stones = a.stones,
              !.captured_black = a.captured_black,
              !.captured_white = a.captured_white,
              !.current_player = 3 - @,
              !.moves = IF a.accepted
                        THEN [@ EXCEPT ![g.current_player] = @ + 1]
                        ELSE @,
              !.last = [note EXCEPT
                           !.kind = IF a.accepted THEN okKind ELSE badKind]]

\* The locals after the attempt a: board and tallies are those it left, and
\* the turn changes when the stone stays (lines 497 and 513).
Outcome(g, a, note, okKind, badKind) ==
    [g EXCEPT !.stones = a.stones,
              !.captured_black = a.captured_black,
              !.captured_white = a.captured_white,
              !.current_player = IF a.accepted THEN 3 - @ ELSE @,
              !.moves = IF a.accepted
                        THEN [@ EXCEPT ![g.current_player] = @ + 1]
                        ELSE @,
              !.last = [note EXCEPT
                           !.kind = IF a.accepted THEN okKind ELSE badKind]]

Placed(g, c, okKind, badKind) ==
    Outcome(g,
            Attempt(c, g.current_player, g.stones, grid_lines,
                    g.captured_black, g.captured_white),
            Noted(c, g.current_player, Put(g.stones, c, g.current_player),
                  grid_lines),
            okKind, badKind)

\* The click handler without the test (col, row) not in stones.
OnClickAnyCell(g, c) ==
    IF InBounds(c, grid_lines)
    THEN Placed([g EXCEPT !.pass_count = 0], c, "accepted", "suicide")
    ELSE [g EXCEPT !.pass_count = 0, !.last = Did("invalid")]

\* event.type == pygame.MOUSEBUTTONDOWN and event.button == 1, the click
\* being rounded to the cell c
OnClick(g, c) ==
    IF InBounds(c, grid_lines) /\ c \notin DOMAIN g.stones
    THEN Placed([g EXCEPT !.pass_count = 0], c, "accepted", "suicide")
    ELSE [g EXCEPT !.pass_count = 0, !.last = Did("invalid")]

\* The computer's turn handing the turn over at every failed try.
OnOtherTrySwitches(g, pos) ==
    IF pos # None
    THEN Placed([g EXCEPT !.computer_tries = 0, !.pass_count = 0],
                pos, "cmove", "crollback")
    ELSE IF g.computer_tries + 1 = ComputerTriesLimit
         THEN [g EXCEPT !.pass_count = @ + 1,
                        !.current_player = 3 - @,
                        !.computer_tries = 0,
                        !.last = Did("cpass")]
         ELSE [g EXCEPT !.computer_tries = @ + 1,
                        !.current_player = 3 - @,
                        !.last = Did("ctry")]

\* Any other event (mouse motion, another button, a key release) reaches the
\* last elif of the chain: the computer's turn in one-player mode.  pos is
\* what computer_move returned.
OnOther(g, pos) ==
    IF pos # None
    THEN Placed([g EXCEPT !.computer_tries = 0, !.pass_count = 0],
                pos, "cmove", "crollback")
    ELSE IF g.computer_tries + 1 = ComputerTriesLimit
         THEN [g EXCEPT !.pass_count = @ + 1,
                        !.current_player = 3 - @,
                        !.computer_tries = 0,
                        !.last = Did("cpass")]
         ELSE [g EXCEPT !.computer_tries = @ + 1, !.last = Did("ctry")]

ComputersTurn == current_player = WHITE /\ players = 1

\* ---- the loop

SetLocals(g) ==
    /\ stones' = g.stones
    /\ current_player' = g.current_player
    /\ computer_tries' = g.computer_tries
    /\ pass_count' = g.pass_count
    /\ captured_black' = g.captured_black
    /\ captured_white' = g.captured_white
    /\ game_running' = g.game_running
    /\ moves' = g.moves
    /\ last' = g.last
    /\ pass_score' = g.pass_score

\* The rest of the frame, lines 523-541, with the locals g: the scores are
\* computed; the loop goes on, or game() returns the scores.
FrameOf(g) ==
    \E s \in {Score(g)} :
        /\ black_score' = s[1]
        /\ white_score' = s[2]
        /\ batch' = 0
        /\ IF g.game_running
           THEN pc' = "loop" /\ SetLocals(g)
           ELSE pc' = "done" /\ SetLocals([Locals0 EXCEPT
                                              !.game_running = FALSE,
                                              !.pass_score = g.pass_score])

\* An event is taken from the batch: the first one of a frame, or one behind
\* the event that ended the game, in a batch of at most `most` events.
Taken(most) ==
    \/ pc = "loop" /\ batch = 0
    \/ pc = "drain" /\ batch < most

\* The bounds of the model.
Within(g) ==
    /\ g.moves[BLACK] <= MaxBlack
    /\ g.moves[WHITE] <= MaxWhite
    /\ g.pass_count <= MaxPass

\* An event has left the locals g.  The frame follows when the game still
\* runs or the batch is at its bound; else the batch stays open.
Commit(g, most) ==
    /\ Within(g)
    /\ UNCHANGED <<grid_lines, players>>
    /\ IF g.game_running \/ batch + 1 = most
       THEN FrameOf(g)
       ELSE /\ SetLocals(g)
            /\ batch' = batch + 1
            /\ pc' = "drain"
            /\ UNCHANGED <<black_score, white_score>>

Start ==
    /\ players \in {1, 2}
    /\ stones = Locals0.stones
    /\ current_player = Locals0.current_player
    /\ computer_tries = Locals0.computer_tries
    /\ pass_count = Locals0.pass_count
    /\ captured_black = Locals0.captured_black
    /\ captured_white = Locals0.captured_white
    /\ game_running = Locals0.game_running
    /\ moves = Locals0.moves
    /\ last = Locals0.last
    /\ pass_score = Locals0.pass_score
    /\ black_score = 0
    /\ white_score = 0
    /\ pc = "loop"
    /\ batch = 0

Quit(most) ==
    /\ Taken(most)
    /\ \E g \in {OnQuit(Locals)} : Commit(g, most)

KeyP(most) ==
    /\ Taken(most)
    /\ \E g \in {OnKeyP(Locals)} : Commit(g, most)

\* event.type == pygame.KEYDOWN with another key
KeyOther(most) ==
    /\ Taken(most)
    /\ \E g \in {Locals} : Commit(g, most)

\* event.type == pygame.VIDEORESIZE: only the window changes
Resize(most) ==
    /\ Taken(most)
    /\ \E g \in {Locals} : Commit(g, most)

\* The cells a click can be rounded to: those of the board, and one beyond
\* each of its four sides.
ClickCells(n) ==
    Cells(n) \cup {<<-1, 0>>, <<n, n - 1>>, <<0, -1>>, <<n - 1, n>>}

Click(c, most) ==
    /\ Taken(most)
    /\ \E g \in {OnClick(Locals, c)} : Commit(g, most)

Other(most) ==
    /\ Taken(most)
    /\ \E g \in IF ComputersTurn
                THEN {OnOther(Locals, pos) :
                         pos \in computer_move(stones, grid_lines)}
                ELSE {Locals} :
           Commit(g, most)

\* A frame whose batch holds no (further) event.
Frame ==
    /\ pc \in {"loop", "drain"}
    /\ UNCHANGED <<grid_lines, players>>
    /\ \E g \in {Locals} : FrameOf(g)

\* One event of a batch of at most `most` events, or the end of the batch.
Step(most) ==
    \/ Quit(most)
    \/ KeyP(most)
    \/ KeyOther(most)
    \/ Resize(most)
    \/ \E c \in ClickCells(grid_lines) : Click(c, most)
    \/ Other(most)
    \/ Frame

\* Games in which the event that ends the game is the last of its batch.
Init == grid_lines \in GameSizes /\ Start

Next == Step(1)

Spec == Init /\ [][Next]_vars

\* Games in which events are queued behind the one that ends the game.
InitLate == grid_lines \in LateSizes /\ Start

NextLate == Step(MaxBatch)

SpecLate == InitLate /\ [][NextLate]_vars

\* ---- the end-to-end scenarios, on the 9-line board

InitScenario == grid_lines = ScenarioLines /\ Start

ScenarioClick(c) ==
    /\ moves[BLACK] + moves[WHITE] < ScenarioMoves
    /\ Click(c, 1)

ScenarioPass == KeyP(1)

NextScenario ==
    \/ \E c \in ClickCells(grid_lines) : ScenarioClick(c)
    \/ ScenarioPass
    \/ Frame

SpecScenario == InitScenario /\ [][NextScenario]_vars

\* ---- the scorer on every board

ScoreSizes == {2, 3}

AllBoards(n) == UNION {[D -> {BLACK, WHITE}] : D \in SUBSET Cells(n)}

InitScore ==
    /\ grid_lines \in ScoreSizes
    /\ players = 2
    /\ stones \in AllBoards(grid_lines)
    /\ current_player = BLACK
    /\ computer_tries = 0
    /\ pass_count = 0
    /\ captured_black \in 0..MaxTally
    /\ captured_white \in 0..MaxTally
    /\ game_running = TRUE
    /\ black_score = 0
    /\ white_score = 0
    /\ pc = "loop"
    /\ batch = 0
    /\ moves = Locals0.moves
    /\ last = Did("init")
    /\ pass_score = None

\* The call of line 538.
ScoreCall ==
    /\ last.kind = "init"
    /\ \E s \in {calculate_score(stones, grid_lines, captured_black,
                                 captured_white)} :
           black_score' = s[1] /\ white_score' = s[2]
    /\ last' = Did("score")
    /\ UNCHANGED <<grid_lines, players, stones, current_player, computer_tries,
                   pass_count, captured_black, captured_white, game_running,
                   pc, batch, moves, pass_score>>

NextScore == ScoreCall

SpecScore == InitScore /\ [][NextScore]_vars

\* ---- the analyzer and the computer's sampler on every board

CallSizes == {2, 3}

InitCalls ==
    /\ grid_lines \in CallSizes
    /\ players = 1
    /\ stones \in AllBoards(grid_lines)
    /\ current_player = WHITE
    /\ computer_tries = 0
    /\ pass_count = 0
    /\ captured_black = 0
    /\ captured_white = 0
    /\ game_running = TRUE
    /\ black_score = 0
    /\ white_score = 0
    /\ pc = "loop"
    /\ batch = 0
    /\ moves = Locals0.moves
    /\ last = Did("init")
    /\ pass_score = None

\* A call of get_group_and_liberties on the stone at c, as at line 408.
GroupCall(c) ==
    /\ last.kind = "init"
    /\ c \in DOMAIN stones
    /\ \E g \in {get_group_and_liberties(c, stones[c], stones, grid_lines)} :
           last' = [kind |-> "group", cell |-> c, group |-> g.group,
                    liberties |-> g.liberties]
    /\ UNCHANGED <<grid_lines, players, stones, current_player, computer_tries,
                   pass_count, captured_black, captured_white, game_running,
                   black_score, white_score, pc, batch, moves, pass_score>>

\* The call of line 502.
ComputerCall ==
    /\ last.kind = "init"
    /\ \E pos \in computer_move(stones, grid_lines) :
           last' = [kind |-> "computer", pos |-> pos]
    /\ UNCHANGED <<grid_lines, players, stones, current_player, computer_tries,
                   pass_count, captured_black, captured_white, game_running,
                   black_score, white_score, pc, batch, moves, pass_score>>

\* One run of the sampling loop of lines 432-438 over the empty cells of
\* lines 426-430, with the iterations it took.
SampleRun ==
    /\ last.kind = "init"
    /\ \E r \in SampleLoop(Cells(grid_lines) \ DOMAIN stones, 0, stones,
                            grid_lines) :
           last' = [kind |-> "sample", pos |-> r[1], iters |-> r[2]]
    /\ UNCHANGED <<grid_lines, players, stones, current_player, computer_tries,
                   pass_count, captured_black, captured_white, game_running,
                   black_score, white_score, pc, batch, moves, pass_score>>

NextCalls ==
    \/ \E c \in Cells(grid_lines) : GroupCall(c)
    \/ ComputerCall
    \/ SampleRun

SpecCalls == InitCalls /\ [][NextCalls]_vars

\* ------------------------------------------------------------------ properties
Empties == Cells(grid_lines) \ DOMAIN stones

StonePlaced == last.kind \in {"accepted", "cmove"}

\* C1: in every reachable state of a game, every group of stones on the board,
\* of either colour, has at least one liberty.
EveryGroupHasALiberty ==
    \A G \in Groups(stones) : LibertiesOf(G, stones, grid_lines) # {}

\* A stone has just captured, and stones of both colours are on the board.
CaptureSeen ==
    /\ StonePlaced
    /\ last.groups >= 1
    /\ {stones[c] : c \in DOMAIN stones} = {BLACK, WHITE}

\* C2: when a stone is placed, valid_move removes exactly the opposing groups
\* next to the placed cell that have no liberty after the placement, all of
\* them and nothing else, and the tally of each colour grows by the number of
\* its stones removed.
CapturesExact ==
    \A c \in Empties :
        LET st1 == Put(stones, c, current_player)
            v == valid_move(c, st1, grid_lines, current_player,
                            captured_black, captured_white)
            dead == UNION DeadGroups(c, current_player, st1, grid_lines)
        IN /\ v.stones = Del(st1, dead)
           /\ v.captured_black = captured_black
                  + Cardinality({x \in dead : st1[x] = BLACK})
           /\ v.captured_white = captured_white
                  + Cardinality({x \in dead : st1[x] = WHITE})

\* A placed stone has just captured two groups at once.
MultiCaptureSeen == StonePlaced /\ last.groups >= 2

\* C3: a click on an empty cell whose stone has no liberty at the moment of
\* the placement but leaves an opposing group next to it without a liberty is
\* accepted: the stone stays, the captured stones are gone and the turn goes
\* to the other player.
CaptureBeforeSuicide ==
    \A c \in Empties :
        LET st1 == Put(stones, c, current_player)
            dead == UNION DeadGroups(c, current_player, st1, grid_lines)
            g == OnClick(Locals, c)
        IN (LibertiesOf(Component(c, st1), st1, grid_lines) = {} /\ dead # {})
           => /\ g.last.kind = "accepted"
              /\ c \in DOMAIN g.stones
              /\ g.stones[c] = current_player
              /\ dead \cap DOMAIN g.stones = {}
              /\ g.current_player = 3 - current_player

\* A click was accepted whose stone had no liberty when it was placed.
SavedByCaptureSeen == last.kind = "accepted" /\ last.nolib /\ last.groups >= 1

\* C4: a click on an empty cell whose stone has no liberty after the captures
\* is rejected: the cell is empty afterwards, every stone not captured is
\* still there with its colour, and the player to move is the same.
SuicideRolledBack ==
    \A c \in Empties :
        LET st1 == Put(stones, c, current_player)
            dead == UNION DeadGroups(c, current_player, st1, grid_lines)
            st2 == Del(st1, dead)
            g == OnClick(Locals, c)
        IN LibertiesOf(Component(c, st2), st2, grid_lines) = {}
           => /\ g.last.kind = "suicide"
              /\ c \notin DOMAIN g.stones
              /\ \A x \in (DOMAIN stones) \ dead :
                     x \in DOMAIN g.stones /\ g.stones[x] = stones[x]
              /\ g.current_player = current_player

\* A click has just been rejected as suicide.
SuicideSeen == last.kind = "suicide" /\ pc = "loop"

\* C5: a click outside the board or on an occupied cell changes neither the
\* board, nor the tallies, nor the score computed from them, nor the player
\* to move.
InvalidClickNoChange ==
    \A c \in ClickCells(grid_lines) :
        (~InBounds(c, grid_lines) \/ c \in DOMAIN stones)
        => LET g == OnClick(Locals, c)
           IN /\ g.last.kind = "invalid"
              /\ g.stones = stones
              /\ g.captured_black = captured_black
              /\ g.captured_white = captured_white
              /\ Score(g) = Score(Locals)
              /\ g.current_player = current_player

\* A click has just been rejected as invalid, with stones on the board.
InvalidClickSeen == last.kind = "invalid" /\ stones # EmptyBoard

\* C6: after two passes in a row with no click or computer move between
\* them, the game has ended, whoever made each pass.
TwoPassesEndGame == pass_count >= PassLimit => ~game_running

\* C7: when two passes have ended the game, the scores game() returns are
\* those of the board and tallies at the second pass.
FinalScoreIsScoreAtSecondPass ==
    (pc = "done" /\ pass_score # None)
    => <<black_score, white_score>> = pass_score

\* Scenario A: the 9-line board holds one black stone at (1,1) and nothing
\* has been captured.
ScenarioA ==
    /\ grid_lines = ScenarioLines
    /\ pc = "loop"
    /\ DOMAIN stones = {<<1, 1>>}
    /\ stones[<<1, 1>>] = BLACK
    /\ captured_black = 0
    /\ captured_white = 0

\* C8 as claimed: in scenario A Black gets territory 0 and score 0, and White
\* gets 7.5.
ScenarioAClaimed ==
    ScenarioA => /\ Territory(stones, grid_lines).territory_black = 0
                 /\ black_score = 0
                 /\ white_score = 75

\* C8 as amended: in scenario A Black gets the 80 empty cells as territory and
\* the score 80, and White gets 7.5.
ScenarioAScores ==
    ScenarioA => /\ Territory(stones, grid_lines).territory_black = 80
                 /\ black_score = 800
                 /\ white_score = 75

\* The stone of scenario A has been placed and the frame has run.
ScenarioASeen == ScenarioA /\ last.kind = "accepted"

\* C9: the scorer finds exactly the maximal regions of empty cells, each
\* once and with the colours that border it, and counts a region for a colour
\* exactly when that colour alone borders it; the two territories together
\* never exceed the number of empty cells.
TerritoryByRule ==
    last.kind = "score" =>
    LET t == Territory(stones, grid_lines) IN
    /\ {f.regions : f \in t.found} = Regions(stones, grid_lines)
    /\ Cardinality(t.found) = Cardinality(Regions(stones, grid_lines))
    /\ \A f \in t.found : f.neighbours = Border(f.regions, stones)
    /\ t.territory_black = TerritoryOf(BLACK, stones, grid_lines)
    /\ t.territory_white = TerritoryOf(WHITE, stones, grid_lines)
    /\ t.territory_black + t.territory_white <= Cardinality(Empties)

\* The scorer has run on a board with a region bordered by both colours and
\* a region bordered by Black alone.
MixedRegionsScored ==
    /\ last.kind = "score"
    /\ \E R1, R2 \in Regions(stones, grid_lines) :
           Border(R1, stones) = {BLACK, WHITE} /\ Border(R2, stones) = {BLACK}

\* C10: the Black score is Black's territory plus the captured white stones;
\* the White score is White's territory plus the captured black stones plus
\* the komi, hence at least the komi.
ScoreFormula ==
    last.kind = "score"
    => /\ black_score
            = 10 * (TerritoryOf(BLACK, stones, grid_lines) + captured_white)
       /\ white_score
            = 10 * (TerritoryOf(WHITE, stones, grid_lines) + captured_black)
              + KomiTenths
       /\ white_score >= KomiTenths

\* The scorer has run with different tallies and territory on the board.
UnequalTalliesScored ==
    /\ last.kind = "score"
    /\ captured_black # captured_white
    /\ TerritoryOf(BLACK, stones, grid_lines) > 0

\* The stones of `colour` that a step takes off the board.
Gone(colour) ==
    {c \in DOMAIN stones :
        stones[c] = colour /\ (c \notin DOMAIN stones' \/ stones'[c] # colour)}

\* C11: in every step of a game each capture tally grows by exactly the number
\* of stones of its colour that the step takes off the board, so the tallies
\* never decrease and always equal the stones captured since the game started.
TalliesCountCaptures ==
    [][pc' # "done" =>
          /\ captured_black' = captured_black + Cardinality(Gone(BLACK))
          /\ captured_white' = captured_white + Cardinality(Gone(WHITE))]_vars

\* Stones of both colours have been captured in one game.
BothColoursCaptured == captured_black >= 1 /\ captured_white >= 1

\* C12: the group that get_group_and_liberties returns for an occupied cell is
\* the maximal same-colour group of that cell, and the liberties it returns
\* are exactly the empty cells next to that group; they are disjoint from
\* the group and from the occupied cells.
GroupAndLibertiesExact ==
    last.kind = "group"
    => /\ last.group = Component(last.cell, stones)
       /\ last.liberties
              = LibertiesOf(Component(last.cell, stones), stones, grid_lines)
       /\ last.liberties \cap last.group = {}
       /\ last.liberties \cap DOMAIN stones = {}

\* The analyzer has returned a group of three stones or more that has
\* liberties, on a board with another stone of the colour outside the group.
LargeGroupAnalyzed ==
    /\ last.kind = "group"
    /\ Cardinality(last.group) >= 3
    /\ last.liberties # {}
    /\ \E x \in DOMAIN stones :
           stones[x] = stones[last.cell] /\ x \notin last.group

\* The empty cells where a white stone, placed with no capture applied, is
\* in a group that has a liberty.
WithLiberty ==
    {m \in Empties :
        LibertiesOf(Component(m, Put(stones, m, WHITE)),
                    Put(stones, m, WHITE), grid_lines) # {}}

\* C13: computer_move returns a cell of WithLiberty, and None exactly when
\* WithLiberty is empty.
ComputerMoveByLiberty ==
    last.kind = "computer"
    => IF WithLiberty = {} THEN last.pos = None ELSE last.pos \in WithLiberty

\* computer_move has returned None on a board where White has a legal move
\* that captures.
NoneDespiteCapture ==
    /\ last.kind = "computer"
    /\ last.pos = None
    /\ \E m \in Empties : Attempt(m, WHITE, stones, grid_lines, 0, 0).accepted

\* C14: the sampling loop ends after at most as many iterations as there are
\* empty cells, all of them when it returns None.
SampleLoopBounded ==
    last.kind = "sample"
    => /\ last.iters <= Cardinality(Empties)
       /\ last.pos = None => last.iters = Cardinality(Empties)
       /\ last.pos # None => last.iters >= 1 /\ last.pos \in Empties

\* The loop has returned a cell after sampling cells without a liberty.
SampledAfterFailures ==
    last.kind = "sample" /\ last.pos # None /\ last.iters >= 3

\* The locals g differ from the current ones as a pass allows: board and
\* tallies are the same, the pass count is one more, the turn has changed.
AsAfterPass(g) ==
    /\ g.stones = stones
    /\ g.captured_black = captured_black
    /\ g.captured_white = captured_white
    /\ g.pass_count = pass_count + 1
    /\ g.current_player = 3 - current_player

\* C15: a pass by the P key and the computer's forced pass leave the board
\* and the tallies as they are, add one to the pass count and hand the turn
\* over; a step that changes the board is a move attempt, and every stone on
\* the board after it, but for the one placed, was there before.
PassKeepsBoard ==
    /\ [](pc = "loop" =>
            /\ AsAfterPass(OnKeyP(Locals))
            /\ (ComputersTurn /\ computer_tries + 1 = ComputerTriesLimit
                     /\ None \in computer_move(stones, grid_lines))
                => AsAfterPass(OnOther(Locals, None)))
    /\ [][(stones' # stones /\ pc' # "done") =>
             /\ last'.kind \in {"accepted", "cmove", "suicide", "crollback"}
             /\ \E c \in Cells(grid_lines) \ DOMAIN stones :
                    \A x \in (DOMAIN stones') \ {c} :
                        x \in DOMAIN stones /\ stones'[x] = stones[x]]_vars

\* The computer has just made its forced pass, with stones on the board.
ComputerPassSeen == last.kind = "cpass" /\ stones # EmptyBoard

\* C17: a click that is rejected, as invalid or as suicide, leaves the pass
\* count as it was.
RejectedKeepsPassCount ==
    pc = "loop" =>
        \A c \in ClickCells(grid_lines) :
            OnClick(Locals, c).last.kind \in {"invalid", "suicide"}
            => OnClick(Locals, c).pass_count = pass_count

\* The locals g have the board and the tallies of the current state.
SameBoardAndTallies(g) ==
    /\ g.stones = stones
    /\ g.captured_black = captured_black
    /\ g.captured_white = captured_white

\* C18: an attempt rejected as suicide, by a click or on the computer's turn,
\* has captured nothing: board and tallies are those before the attempt.
SuicideKeepsBoard ==
    pc = "loop" =>
        /\ \A c \in Empties :
               OnClick(Locals, c).last.kind = "suicide"
               => SameBoardAndTallies(OnClick(Locals, c))
        /\ ComputersTurn =>
               \A pos \in computer_move(stones, grid_lines) \ {None} :
                   OnOther(Locals, pos).last.kind = "crollback"
                   => SameBoardAndTallies(OnOther(Locals, pos))

\* A click has just been rejected as suicide in a game in which stones have
\* been captured.
SuicideAfterCapture ==
    /\ last.kind = "suicide"
    /\ pc = "loop"
    /\ captured_black + captured_white >= 1

\* C19: on the computer's turn every cell that computer_move can return is
\* accepted: the white stone stays and the turn goes to Black.
ComputerMoveAccepted ==
    (pc = "loop" /\ ComputersTurn) =>
        \A pos \in computer_move(stones, grid_lines) \ {None} :
            /\ OnOther(Locals, pos).last.kind = "cmove"
            /\ pos \in DOMAIN OnOther(Locals, pos).stones
            /\ OnOther(Locals, pos).stones[pos] = WHITE
            /\ OnOther(Locals, pos).current_player = BLACK

\* The computer has just placed a stone that captured.
ComputerCaptureSeen ==
    last.kind = "cmove" /\ last.groups >= 1 /\ current_player = BLACK

\* C20: in one-player mode a click that is accepted has placed a black stone,
\* so that the turn after it is White's.
HumanPlacesBlackOnly ==
    (players = 1 /\ pc = "loop" /\ last.kind = "accepted")
    => current_player = WHITE

\* The player to move in the locals g, after an event that switches the turn
\* exactly when `switches` holds.
TurnAfter(g, switches) ==
    g.current_player = IF switches THEN 3 - current_player ELSE current_player

\* C21: Black moves first, and the player to move changes exactly when a
\* stone is placed and stays or a pass is made: the P key switches; a click
\* switches exactly when its stone is on the board afterwards; a computer turn
\* switches exactly when its stone is on the board afterwards or, with no
\* cell returned, when it passes, and not at a failed try; QUIT does not.
TurnSwitches ==
    /\ last.kind = "init" => current_player = BLACK
    /\ pc = "loop" =>
           /\ TurnAfter(OnKeyP(Locals), TRUE)
           /\ TurnAfter(OnQuit(Locals), FALSE)
           /\ \A c \in ClickCells(grid_lines) :
                  TurnAfter(OnClick(Locals, c),
                            c \notin DOMAIN stones
                                /\ c \in DOMAIN OnClick(Locals, c).stones)
           /\ ComputersTurn =>
                  \A pos \in computer_move(stones, grid_lines) :
                      TurnAfter(OnOther(Locals, pos),
                                IF pos # None
                                THEN pos \in DOMAIN OnOther(Locals, pos).stones
                                ELSE OnOther(Locals, pos).pass_count
                                         = pass_count + 1)

\* The computer has just failed a try without passing, and is still to move.
ComputerTrySeen ==
    last.kind = "ctry" /\ computer_tries >= 1 /\ current_player = WHITE

\* The cells that hold a stone of `colour`.
OnBoard(colour) == {c \in DOMAIN stones : stones[c] = colour}

\* C22: for each colour, the stones of the colour on the board and the
\* captured stones of the colour together are as many as the accepted moves
\* of the colour.
StonesConserved ==
    pc = "loop" =>
        /\ Cardinality(OnBoard(BLACK)) + captured_black = moves[BLACK]
        /\ Cardinality(OnBoard(WHITE)) + captured_white = moves[WHITE]

\* Black has lost two stones or more and has a stone on the board again.
BlackBackAfterCapture == captured_black >= 2 /\ OnBoard(BLACK) # {}

\* The locals g after an attempt of `player` keep every stone of the player
\* that is on the board and the tally of the player's colour.
OwnStonesKept(g, player) ==
    /\ \A x \in OnBoard(player) : x \in DOMAIN g.stones /\ g.stones[x] = player
    /\ player = BLACK => g.captured_black = captured_black
    /\ player = WHITE => g.captured_white = captured_white

\* C23: an attempt removes no stone of the player who makes it and leaves the
\* tally of that player's colour unchanged, by a click and on the computer's
\* turn, so that one attempt changes at most one tally.
OwnStonesNeverCaptured ==
    pc = "loop" =>
        /\ \A c \in Empties : OwnStonesKept(OnClick(Locals, c), current_player)
        /\ ComputersTurn =>
               \A pos \in computer_move(stones, grid_lines) \ {None} :
                   OwnStonesKept(OnOther(Locals, pos), WHITE)

\* A player with two stones or more on the board has just captured.
CaptureBesideOwnStones ==
    /\ StonePlaced
    /\ last.groups >= 1
    /\ Cardinality(OnBoard(3 - current_player)) >= 2
    /\ pc = "loop"

====
